---- MODULE Spec2Model ----
(***************************************************************************)
(* Fall detector, optimized loop sketch (src/unnamed/part_001).            *)
(*                                                                         *)
(* One action, Loop, is one call of loop(): millis() is read, the sensor   *)
(* is read, the state machine runs, then the button logic, the hardware    *)
(* output and the throttled UI update.                                     *)
(*                                                                         *)
(* unsigned long is 32 bits wide.  A value is kept as a pair <<hi, lo>> of *)
(* 16-bit halves (value = hi * 65536 + lo), so that the arithmetic is the  *)
(* arithmetic modulo 2^32 of the target.  int is the 16-bit int of the     *)
(* ATmega328P (Arduino Uno, src/README.md line 77).                        *)
(*                                                                         *)
(* Samples are squared magnitudes in hundredths of g^2: 400 is             *)
(* IMPACT_SQ = 2.0f * 2.0f, 169 is STABILITY_SQ = 1.3f * 1.3f.  No float   *)
(* lies between the float product 1.3f * 1.3f and the real number 1.69, so *)
(* a float sample is > STABILITY_SQ exactly when it is > 1.69.             *)
(*                                                                         *)
(* Besides the globals of the sketch the state holds what the last         *)
(* iteration read and did (classified, trigger, stores, led, buzzer,       *)
(* rendered) and true elapsed times kept as plain numbers (sinceImpact,    *)
(* sincePress, pressRun), against which the wrapping arithmetic is         *)
(* compared.                                                               *)
(*                                                                         *)
(* Spec runs the loop on the inputs Deltas, Samples and Buttons.  SpecHold *)
(* runs it longer on fewer inputs, SpecSensor lets sensor reads fail,      *)
(* SpecLive states that the loop is called again and again.  SpecV1 runs   *)
(* the loop of the baseline sketch (src/sketch-Loop-V1.ino), whose state   *)
(* is the record v1.  SpecRtos runs the two tasks of the FreeRTOS sketch   *)
(* (same file, from line 202), whose state is the record rtos, in any      *)
(* interleaving; SpecRtosLive states that TaskAlarm is scheduled again and *)
(* again while the button is not held.                                     *)
(***************************************************************************)
EXTENDS Integers, Sequences, FiniteSets, TLC

\* ---------------------------------------------------------------- bounds
MaxIter == 5

\* iterations of the runs that follow the button through an alarm
MaxHold == 6

\* iterations of the runs in which sensor reads fail
MaxSensor == 5

\* iterations of the baseline sketch
MaxV1 == 5

\* iterations of the runs in which the loop is called again and again
MaxLive == 4

\* ------------------------------------------------------- program constants
IMPACT_SQ == 400
STABILITY_SQ == 169
JUDGE_WINDOW_MS == 5000
LONG_PRESS_MS == 2000
REQUIRED_ACTIVE_SECONDS == 3
DISPLAY_INTERVAL == 100
SLOTS == 5
SLOT_MS == 1000
SIREN_MS == 300
REQUESTED == 6

\* 1.8 g squared, the impact threshold of src/README.md line 31
README_IMPACT_SQ == 324

\* the baseline sketch (src/sketch-Loop-V1.ino): IMPACT_THRESHOLD_G = 1.8f
\* in hundredths of g, and the delay that ends its loop
V1_IMPACT_THRESHOLD_G == 180
V1_DELAY_MS == 50

\* the FreeRTOS sketch (src/sketch-Loop-V1.ino from line 202):
\* IMPACT_THRESHOLD_G = 1.8f in hundredths of g, the period of TaskAlarm,
\* the length of xEventQueue and the frequency of its tone
RTOS_IMPACT_THRESHOLD_G == 180
ALARM_PERIOD_MS == 20
QUEUE_LENGTH == 4
RTOS_TONE == 2000
EV_NONE == 0
EV_IMPACT == 1

STATE_MONITORING == "MONITORING"
STATE_JUDGING == "JUDGING"
STATE_ALARM == "ALARM"
SystemState == {STATE_MONITORING, STATE_JUDGING, STATE_ALARM}

LOW == 0
HIGH == 1

\* ------------------------------------------------ 32-bit unsigned arithmetic
HALF == 65536

U32(n) == <<n \div HALF, n % HALF>>

Zero32 == <<0, 0>>

\* x + d modulo 2^32, d a natural number below 2^31
Add32(x, d) ==
  LET lo == x[2] + (d % HALF)
      hi == x[1] + (d \div HALF) + (lo \div HALF)
  IN  <<hi % HALF, lo % HALF>>

\* a - b modulo 2^32 (unsigned long subtraction)
Sub32(a, b) ==
  LET lo == a[2] - b[2]
      borrow == IF lo < 0 THEN 1 ELSE 0
      hi == a[1] - b[1] - borrow
  IN  <<hi % HALF, lo % HALF>>

\* x >= c, c a natural number below 2^31
Geq32(x, c) ==
  \/ x[1] > c \div HALF
  \/ x[1] = c \div HALF /\ x[2] >= c % HALF

\* x / c (unsigned long division), for 0 < c <= 1000; the quotient fits
Div32(x, c) ==
  ((x[1] \div c) * HALF) + ((((x[1] % c) * HALF) + x[2]) \div c)

\* conversion of an unsigned long to the 16-bit int (modulo 2^16, signed)
ToInt(q) ==
  LET m == q % HALF
  IN  IF m >= 32768 THEN m - HALF ELSE m

\* ------------------------------------------------------------------ state
VARIABLES
  now,              \* value of millis() read by the last iteration
  currentState,
  impactTime,
  btnWasLow,
  btnPressStart,
  btnHeld,
  motionHistory,
  lastDisplayTime,
  led,              \* level written to PIN_LED
  buzzer,           \* frequency of the tone on PIN_BUZZER, 0 after noTone
  rendered,         \* the last iteration refreshed the display
  classified,       \* currentState, impactTime and motionHistory after the switch of the last iteration
  trigger,          \* the last iteration started in STATE_MONITORING and read a sample > IMPACT_SQ
  stores,           \* indices of the motionHistory[secondIndex] stores of the last iteration
  sinceImpact,      \* ms from the iteration that set impactTime to the last iteration
  sincePress,       \* ms from the iteration that set btnPressStart to the last one, -1 without a press being timed
  still,            \* no sample read since the impact exceeded STABILITY_SQ
  calm,             \* no sample read so far exceeded IMPACT_SQ
  pressRun,         \* ms the button has been read LOW in consecutive iterations in STATE_ALARM, -1 if not in the last one
  earlier,          \* ms of the press runs before the last release read since STATE_ALARM was entered (at most LONG_PRESS_MS), -1 without a release
  heldFor,          \* ms the button has been read LOW in consecutive iterations in any state (at most LONG_PRESS_MS), -1 if read HIGH
  moved,            \* the last iteration started in STATE_JUDGING and read a sample > STABILITY_SQ
  failed,           \* the sensor read of the last iteration failed
  outage,           \* every sensor read since the impact failed
  sinceRender,      \* ms from the last display refresh before the last iteration to the last iteration (at most DISPLAY_INTERVAL)
  iter,             \* number of iterations run
  v1,               \* the baseline sketch: its globals, outputs and history
  rtos              \* the FreeRTOS sketch: alarmActive, xEventQueue, the locals of TaskAlarm, outputs and history

\* the variables of the optimized sketch
loopVars == <<now, currentState, impactTime, btnWasLow,
          btnPressStart, btnHeld, motionHistory, lastDisplayTime, led,
          buzzer, rendered, classified, trigger, stores, sinceImpact, sincePress,
          still, calm, pressRun, earlier, heldFor, moved, failed, outage,
          sinceRender, iter>>

vars == <<loopVars, v1, rtos>>

\* ----------------------------------------------------------------- inputs
\* time between two reads of millis(), in ms
Deltas == {1, 1999, 3000, 32768000}

\* squared magnitudes: at STABILITY_SQ, at IMPACT_SQ, above IMPACT_SQ
Samples == {169, 400, 401}

Buttons == {LOW, HIGH}

\* the inputs of the runs that follow the button through an alarm: a short
\* and a long gap below LONG_PRESS_MS and one beyond JUDGE_WINDOW_MS, a
\* sample that marks no slot and an impact
HoldDeltas == {1, 1999, 32768000}

HoldSamples == {169, 401}

\* the inputs of the runs in which the loop is called again and again: every
\* call comes at least 1999 ms after the previous one; 1999 + 1999 is short
\* of JUDGE_WINDOW_MS and 1999 + 3001 is JUDGE_WINDOW_MS
LiveDeltas == {1999, 3001, 32768000}

LiveSamples == {169, 401}

\* the inputs of the runs in which sensor reads fail: the bytes available
\* after Wire.requestFrom, a reading that marks a slot and an impact
SensorDeltas == {1999, 3000, 32768000}

Available == {REQUESTED - 1, REQUESTED}

Readings == {170, 401}

\* millis() of the iteration before the first modelled one: the device has
\* been monitoring since boot and the counter wraps 32771000 ms later
\* (2^32 - 32771000 = 65035 * 65536 + 62536)
StartTimes == {<<65035, 62536>>}

Slots == 0 .. (SLOTS - 1)

AllFalse == [i \in Slots |-> FALSE]

\* the globals as one value
Globals ==
  [currentState |-> currentState, impactTime |-> impactTime,
   btnWasLow |-> btnWasLow, btnPressStart |-> btnPressStart,
   btnHeld |-> btnHeld, motionHistory |-> motionHistory,
   lastDisplayTime |-> lastDisplayTime]

\* ---------------------------------------------------------- state machine
\* the read reported as the reading whatever Wire.available() says
readAccelSqMagnitudeUnchecked(available, reading) == reading

\* the sample of an iteration: 0.0f when fewer than the requested bytes are
\* available, else the squared magnitude of the reading
readAccelSqMagnitude(available, reading) ==
  IF available < REQUESTED THEN 0 ELSE reading

\* a byte of an unsigned long overwritten with 0x01
SetByte(x, k) ==
  CASE k = 0 -> <<x[1], ((x[2] \div 256) * 256) + 1>>
    [] k = 1 -> <<x[1], 256 + (x[2] % 256)>>
    [] k = 2 -> <<((x[1] \div 256) * 256) + 1, x[2]>>
    [] k = 3 -> <<256 + (x[1] % 256), x[2]>>

\* the bytes of an unsigned long a stray store is modelled to hit: the least
\* and the most significant one
StrayBytes == {0, 3}

\* motionHistory[secondIndex] = true with secondIndex < 0: the byte 0x01 is
\* stored below the array, which is undefined behaviour.  The store hits no
\* other global, or one byte of one of them (currentState holds 1 and is
\* assigned afterwards, so a hit there shows nothing).
StrayStore(g) ==
  {g, [g EXCEPT !.btnWasLow = TRUE], [g EXCEPT !.btnHeld = TRUE]}
  \cup {[g EXCEPT !.impactTime = SetByte(@, k)] : k \in StrayBytes}
  \cup {[g EXCEPT !.btnPressStart = SetByte(@, k)] : k \in StrayBytes}
  \cup {[g EXCEPT !.lastDisplayTime = SetByte(@, k)] : k \in StrayBytes}

ActiveCount(mh) == Cardinality({i \in Slots : mh[i]})

\* the impact counted as the motion of second 0
MonitoringMarksImpact(g, nw, a) ==
  IF a > IMPACT_SQ
    THEN {[g |-> [g EXCEPT !.currentState = STATE_JUDGING,
                           !.impactTime = nw,
                           !.motionHistory = [i \in Slots |-> i = 0]],
           stores |-> {}]}
    ELSE {[g |-> g, stores |-> {}]}

\* the impact test with >= for >
MonitoringAtThreshold(g, nw, a) ==
  IF a >= IMPACT_SQ
    THEN {[g |-> [g EXCEPT !.currentState = STATE_JUDGING,
                           !.impactTime = nw,
                           !.motionHistory = AllFalse],
           stores |-> {}]}
    ELSE {[g |-> g, stores |-> {}]}

\* the transition without the reset of the motion history
MonitoringNoReset(g, nw, a) ==
  IF a > IMPACT_SQ
    THEN {[g |-> [g EXCEPT !.currentState = STATE_JUDGING,
                           !.impactTime = nw],
           stores |-> {}]}
    ELSE {[g |-> g, stores |-> {}]}

\* case STATE_MONITORING
Monitoring(g, nw, a) ==
  IF a > IMPACT_SQ
    THEN {[g |-> [g EXCEPT !.currentState = STATE_JUDGING,
                           !.impactTime = nw,
                           !.motionHistory = AllFalse],
           stores |-> {}]}
    ELSE {[g |-> g, stores |-> {}]}

\* the timeout test with > for >=
CheckTimeoutLate(g, timeSinceImpact) ==
  IF ~Geq32(timeSinceImpact, JUDGE_WINDOW_MS + 1)
    THEN g
    ELSE IF ActiveCount(g.motionHistory) >= REQUIRED_ACTIVE_SECONDS
           THEN [g EXCEPT !.currentState = STATE_MONITORING]
           ELSE [g EXCEPT !.currentState = STATE_ALARM]

\* the decision with > for >=
CheckTimeoutMoreThan(g, timeSinceImpact) ==
  IF Geq32(timeSinceImpact, JUDGE_WINDOW_MS)
    THEN IF ActiveCount(g.motionHistory) > REQUIRED_ACTIVE_SECONDS
           THEN [g EXCEPT !.currentState = STATE_MONITORING]
           ELSE [g EXCEPT !.currentState = STATE_ALARM]
    ELSE g

\* B. Check Timeout
CheckTimeout(g, timeSinceImpact) ==
  IF Geq32(timeSinceImpact, JUDGE_WINDOW_MS)
    THEN IF ActiveCount(g.motionHistory) >= REQUIRED_ACTIVE_SECONDS
           THEN [g EXCEPT !.currentState = STATE_MONITORING]
           ELSE [g EXCEPT !.currentState = STATE_ALARM]
    ELSE g

\* the window closed by comparing now with impactTime + JUDGE_WINDOW_MS
JudgingCompare(g, nw, a) ==
  LET timeSinceImpact == Sub32(nw, g.impactTime)
      deadline == Add32(g.impactTime, JUDGE_WINDOW_MS)
      secondIndex == ToInt(Div32(timeSinceImpact, SLOT_MS))
      recorded ==
        IF secondIndex < SLOTS /\ a > STABILITY_SQ
          THEN IF secondIndex \in Slots
                 THEN {[g EXCEPT !.motionHistory[secondIndex] = TRUE]}
                 ELSE StrayStore(g)
          ELSE {g}
      st == IF secondIndex < SLOTS /\ a > STABILITY_SQ
              THEN {secondIndex} ELSE {}
      late == nw[1] > deadline[1] \/ (nw[1] = deadline[1] /\ nw[2] >= deadline[2])
  IN  {[g |-> CheckTimeout(h, IF late THEN U32(JUDGE_WINDOW_MS) ELSE Zero32),
        stores |-> st] : h \in recorded}

\* the slot of the current second assigned the result of the motion test
JudgingOverwrite(g, nw, a) ==
  LET timeSinceImpact == Sub32(nw, g.impactTime)
      secondIndex == ToInt(Div32(timeSinceImpact, SLOT_MS))
      recorded ==
        IF secondIndex < SLOTS
          THEN IF secondIndex \in Slots
                 THEN {[g EXCEPT !.motionHistory[secondIndex] = (a > STABILITY_SQ)]}
                 ELSE StrayStore(g)
          ELSE {g}
      st == IF secondIndex < SLOTS THEN {secondIndex} ELSE {}
  IN  {[g |-> CheckTimeout(h, timeSinceImpact), stores |-> st] : h \in recorded}

\* the timeout checked only inside the branch that records motion
JudgingNestedTimeout(g, nw, a) ==
  LET timeSinceImpact == Sub32(nw, g.impactTime)
      secondIndex == ToInt(Div32(timeSinceImpact, SLOT_MS))
      recorded ==
        IF secondIndex \in Slots
          THEN {[g EXCEPT !.motionHistory[secondIndex] = TRUE]}
          ELSE StrayStore(g)
  IN  IF secondIndex < SLOTS /\ a > STABILITY_SQ
        THEN {[g |-> CheckTimeout(h, timeSinceImpact), stores |-> {secondIndex}]
                : h \in recorded}
        ELSE {[g |-> g, stores |-> {}]}

\* case STATE_JUDGING
Judging(g, nw, a) ==
  LET timeSinceImpact == Sub32(nw, g.impactTime)
      secondIndex == ToInt(Div32(timeSinceImpact, SLOT_MS))
      recorded ==
        IF secondIndex < SLOTS /\ a > STABILITY_SQ
          THEN IF secondIndex \in Slots
                 THEN {[g EXCEPT !.motionHistory[secondIndex] = TRUE]}
                 ELSE StrayStore(g)
          ELSE {g}
      st == IF secondIndex < SLOTS /\ a > STABILITY_SQ
              THEN {secondIndex} ELSE {}
  IN  {[g |-> CheckTimeout(h, timeSinceImpact), stores |-> st] : h \in recorded}

\* 2) Fall Detection Logic: the outcomes of the switch
StateMachine(g, nw, a) ==
  CASE g.currentState = STATE_MONITORING -> Monitoring(g, nw, a)
    [] g.currentState = STATE_JUDGING -> Judging(g, nw, a)
    [] g.currentState = STATE_ALARM -> {[g |-> g, stores |-> {}]}

\* the cancel that also clears the motion history
ButtonLogicCancelClears(g, nw, b) ==
  IF g.currentState = STATE_ALARM
    THEN IF b = LOW
           THEN IF ~g.btnWasLow
                  THEN [g EXCEPT !.btnWasLow = TRUE, !.btnPressStart = nw,
                                 !.btnHeld = TRUE]
                  ELSE IF Geq32(Sub32(nw, g.btnPressStart), LONG_PRESS_MS)
                         THEN [g EXCEPT !.currentState = STATE_MONITORING,
                                        !.btnWasLow = FALSE, !.btnHeld = TRUE,
                                        !.motionHistory = AllFalse]
                         ELSE [g EXCEPT !.btnHeld = TRUE]
           ELSE [g EXCEPT !.btnWasLow = FALSE, !.btnHeld = FALSE]
    ELSE [g EXCEPT !.btnWasLow = FALSE, !.btnHeld = (b = LOW)]

\* the press timed from its edge in every state, the cancel honoured in
\* STATE_ALARM only
ButtonLogicAnyState(g, nw, b) ==
  IF b = LOW
    THEN IF ~g.btnWasLow
           THEN [g EXCEPT !.btnWasLow = TRUE, !.btnPressStart = nw,
                          !.btnHeld = TRUE]
           ELSE IF /\ g.currentState = STATE_ALARM
                   /\ Geq32(Sub32(nw, g.btnPressStart), LONG_PRESS_MS)
                  THEN [g EXCEPT !.currentState = STATE_MONITORING,
                                 !.btnWasLow = FALSE, !.btnHeld = TRUE]
                  ELSE [g EXCEPT !.btnHeld = TRUE]
    ELSE [g EXCEPT !.btnWasLow = FALSE, !.btnHeld = FALSE]

\* the release that keeps the press being timed
ButtonLogicNoRelease(g, nw, b) ==
  IF g.currentState = STATE_ALARM
    THEN IF b = LOW
           THEN IF ~g.btnWasLow
                  THEN [g EXCEPT !.btnWasLow = TRUE, !.btnPressStart = nw,
                                 !.btnHeld = TRUE]
                  ELSE IF Geq32(Sub32(nw, g.btnPressStart), LONG_PRESS_MS)
                         THEN [g EXCEPT !.currentState = STATE_MONITORING,
                                        !.btnWasLow = FALSE, !.btnHeld = TRUE]
                         ELSE [g EXCEPT !.btnHeld = TRUE]
           ELSE [g EXCEPT !.btnHeld = FALSE]
    ELSE [g EXCEPT !.btnWasLow = FALSE, !.btnHeld = (b = LOW)]

\* the cancel without the test of the hold time
ButtonLogicAnyPress(g, nw, b) ==
  IF g.currentState = STATE_ALARM
    THEN IF b = LOW
           THEN IF ~g.btnWasLow
                  THEN [g EXCEPT !.btnWasLow = TRUE, !.btnPressStart = nw,
                                 !.btnHeld = TRUE]
                  ELSE [g EXCEPT !.currentState = STATE_MONITORING,
                                 !.btnWasLow = FALSE, !.btnHeld = TRUE]
           ELSE [g EXCEPT !.btnWasLow = FALSE, !.btnHeld = FALSE]
    ELSE [g EXCEPT !.btnWasLow = FALSE, !.btnHeld = (b = LOW)]

\* the long press honoured in every state
ButtonLogicUngated(g, nw, b) ==
  IF b = LOW
    THEN IF ~g.btnWasLow
           THEN [g EXCEPT !.btnWasLow = TRUE, !.btnPressStart = nw,
                          !.btnHeld = TRUE]
           ELSE IF Geq32(Sub32(nw, g.btnPressStart), LONG_PRESS_MS)
                  THEN [g EXCEPT !.currentState = STATE_MONITORING,
                                 !.btnWasLow = FALSE, !.btnHeld = TRUE]
                  ELSE [g EXCEPT !.btnHeld = TRUE]
    ELSE [g EXCEPT !.btnWasLow = FALSE, !.btnHeld = FALSE]

\* 3) Button Logic (Long Press Reset)
ButtonLogic(g, nw, b) ==
  IF g.currentState = STATE_ALARM
    THEN IF b = LOW
           THEN IF ~g.btnWasLow
                  THEN [g EXCEPT !.btnWasLow = TRUE, !.btnPressStart = nw,
                                 !.btnHeld = TRUE]
                  ELSE IF Geq32(Sub32(nw, g.btnPressStart), LONG_PRESS_MS)
                         THEN [g EXCEPT !.currentState = STATE_MONITORING,
                                        !.btnWasLow = FALSE, !.btnHeld = TRUE]
                         ELSE [g EXCEPT !.btnHeld = TRUE]
           ELSE [g EXCEPT !.btnWasLow = FALSE, !.btnHeld = FALSE]
    ELSE [g EXCEPT !.btnWasLow = FALSE, !.btnHeld = (b = LOW)]

\* the steady alarm of the baseline sketch: LED on, 2 kHz tone
HardwareOutputSteady(g, nw) ==
  IF g.currentState = STATE_ALARM THEN <<HIGH, 2000>> ELSE <<LOW, 0>>

\* 4) Hardware Output: <<level of PIN_LED, frequency on PIN_BUZZER>>
HardwareOutput(g, nw) ==
  IF g.currentState = STATE_ALARM
    THEN IF Div32(nw, SIREN_MS) % 2 = 0 THEN <<HIGH, 2000>> ELSE <<LOW, 1000>>
    ELSE <<LOW, 0>>

\* the display refreshed in every iteration, as in the baseline sketch
DisplayDueAlways(g, nw) == TRUE

\* 5) UI Update (Throttled): the refresh condition
DisplayDue(g, nw) == Geq32(Sub32(nw, g.lastDisplayTime), DISPLAY_INTERVAL)

UIUpdate(g, nw) ==
  IF DisplayDue(g, nw) THEN [g EXCEPT !.lastDisplayTime = nw] ELSE g

\* ---------------------------------------------------------- baseline sketch
\* magnitudes in hundredths of g: at IMPACT_THRESHOLD_G and above it
V1Samples == {180, 181}

\* time between two reads of millis(): the delay of 50 ms at least
V1Deltas == {V1_DELAY_MS, 1949, 1950}

\* the globals after setup(), 2000 ms before the counter wraps, the outputs,
\* and what the last iteration did: impact (it started with the alarm
\* inactive and read a sample above the threshold), checked (alarmActive
\* when the button logic ran), pressRun (ms the button has been read LOW in
\* consecutive iterations of one alarm, -1 if not in the last one),
\* n (iterations run)
V1Init ==
  [alarmActive |-> FALSE, btnWasLow |-> FALSE, btnPressStart |-> Zero32,
   now |-> <<65535, 63536>>, led |-> LOW, buzzer |-> 0,
   impact |-> FALSE, checked |-> FALSE, pressRun |-> -1, n |-> 0]

\* 2) Impact detection: NORMAL -> ALARM
V1Impact(v, aMag) ==
  IF ~v.alarmActive /\ aMag > V1_IMPACT_THRESHOLD_G
    THEN [v EXCEPT !.alarmActive = TRUE]
    ELSE v

\* the cancel without the test of the hold time
V1ButtonLogicAnyPress(v, nw, b) ==
  IF v.alarmActive
    THEN IF b = LOW
           THEN IF ~v.btnWasLow
                  THEN [v EXCEPT !.btnWasLow = TRUE, !.btnPressStart = nw]
                  ELSE [v EXCEPT !.alarmActive = FALSE, !.btnWasLow = FALSE]
           ELSE [v EXCEPT !.btnWasLow = FALSE]
    ELSE [v EXCEPT !.btnWasLow = FALSE]

\* 3) Long-press logic for canceling alarm
V1ButtonLogic(v, nw, b) ==
  IF v.alarmActive
    THEN IF b = LOW
           THEN IF ~v.btnWasLow
                  THEN [v EXCEPT !.btnWasLow = TRUE, !.btnPressStart = nw]
                  ELSE IF Geq32(Sub32(nw, v.btnPressStart), LONG_PRESS_MS)
                         THEN [v EXCEPT !.alarmActive = FALSE,
                                        !.btnWasLow = FALSE]
                         ELSE v
           ELSE [v EXCEPT !.btnWasLow = FALSE]
    ELSE [v EXCEPT !.btnWasLow = FALSE]

\* 4) Drive LED and buzzer based on alarm state
V1Output(v) ==
  IF v.alarmActive
    THEN [v EXCEPT !.led = HIGH, !.buzzer = 2000]
    ELSE [v EXCEPT !.led = LOW, !.buzzer = 0]

\* one call of loop() of the baseline sketch, d ms after the previous one,
\* reading magnitude aMag and button level b
V1Iteration(v, d, aMag, b) ==
  LET nw == Add32(v.now, d)
      w1 == V1Impact(v, aMag)
      w2 == V1ButtonLogic(w1, nw, b)
      w3 == V1Output(w2)
  IN  [w3 EXCEPT !.now = nw,
                 !.impact = (~v.alarmActive /\ aMag > V1_IMPACT_THRESHOLD_G),
                 !.checked = w1.alarmActive,
                 !.pressRun = IF w1.alarmActive /\ b = LOW
                                THEN IF v.alarmActive /\ v.pressRun >= 0
                                       THEN v.pressRun + d
                                       ELSE 0
                                ELSE -1,
                 !.n = v.n + 1]

Min(x, y) == IF x <= y THEN x ELSE y

\* ------------------------------------------------------- FreeRTOS sketch
\* TaskIMU has priority 2 and TaskAlarm priority 1 under a preemptive
\* scheduler: TaskAlarm runs only while TaskIMU is blocked in
\* vTaskDelayUntil, so one pass of the loop of TaskIMU is one step; TaskIMU
\* may run between any two statements of TaskAlarm, so a pass of the loop of
\* TaskAlarm is two steps, one up to its last statement before the write of
\* alarmActive (it holds the access to xEventQueue; all else is local), one
\* for the write.

\* samples of readAccelMagnitudeG, in hundredths of g
RtosSamples == {180, 181}

\* ms between two reads of millis() by TaskAlarm: its period, or longer
\* when the task is kept from running
RtosDeltas == {ALARM_PERIOD_MS, LONG_PRESS_MS - ALARM_PERIOD_MS}

\* the state after setup(): alarmActive, xEventQueue (its items carry, next
\* to the event, old: sent before the last cancel), the locals of
\* TaskAlarm (press is nowMs - btnPressStart of the last pass, at most
\* LONG_PRESS_MS, 0 when btnWasLow is false and btnPressStart is not read
\* before it is written), pc (the next step of TaskAlarm), the outputs
\* (shown is the alarm state on the display), and what the last pass of
\* TaskIMU did (observed: it read alarmActive false and a sample above the
\* threshold; dropped: its send found the queue full) and whether a pass of
\* TaskAlarm has set localAlarm on an old event (stale)
RtosInit ==
  [alarmActive |-> FALSE, xEventQueue |-> <<>>, localAlarm |-> FALSE,
   btnWasLow |-> FALSE, press |-> 0, pc |-> "receive", led |-> LOW,
   buzzer |-> 0, shown |-> FALSE, observed |-> FALSE, dropped |-> FALSE,
   stale |-> FALSE]

\* xQueueSend with xTicksToWait 0 on a full queue, emptying it
xQueueSendFlushing(q, item) ==
  IF Len(q) < QUEUE_LENGTH THEN Append(q, item) ELSE <<>>

\* xQueueSend with xTicksToWait 0: a full queue is left as it is
xQueueSend(q, item) ==
  IF Len(q) < QUEUE_LENGTH THEN Append(q, item) ELSE q

\* xQueueReceive with xTicksToWait 0
xQueueReceive(q) ==
  IF q = <<>>
    THEN [ok |-> FALSE, item |-> [ev |-> EV_NONE, old |-> FALSE], q |-> q]
    ELSE [ok |-> TRUE, item |-> Head(q), q |-> Tail(q)]

\* one pass of the loop of TaskIMU, reading the sample aMag
TaskIMU(r, aMag) ==
  LET send == ~r.alarmActive /\ aMag > RTOS_IMPACT_THRESHOLD_G
  IN  [r EXCEPT !.xEventQueue =
                   IF send THEN xQueueSend(@, [ev |-> EV_IMPACT, old |-> FALSE])
                   ELSE @,
                !.shown = r.alarmActive,
                !.observed = send,
                !.dropped = send /\ Len(r.xEventQueue) = QUEUE_LENGTH]

\* a pass of the loop of TaskAlarm up to the write of alarmActive, d ms
\* after the previous one, with button level b
TaskAlarmReceive(r, d, b) ==
  LET rcv == xQueueReceive(r.xEventQueue)
      raised == rcv.ok /\ rcv.item.ev = EV_IMPACT
      la == raised \/ r.localAlarm
      elapsed == Min(r.press + d, LONG_PRESS_MS)
      cancel == la /\ b = LOW /\ r.btnWasLow /\ elapsed >= LONG_PRESS_MS
      timing == la /\ b = LOW /\ ~cancel
      alarm == la /\ ~cancel
  IN  [r EXCEPT !.xEventQueue =
                   IF cancel
                     THEN [i \in 1 .. Len(rcv.q) |-> [rcv.q[i] EXCEPT !.old = TRUE]]
                     ELSE rcv.q,
                !.localAlarm = alarm,
                !.btnWasLow = timing,
                !.press = IF timing /\ r.btnWasLow THEN elapsed ELSE 0,
                !.led = IF alarm THEN HIGH ELSE LOW,
                !.buzzer = IF alarm THEN RTOS_TONE ELSE 0,
                !.stale = r.stale \/ (raised /\ ~r.localAlarm /\ rcv.item.old),
                !.pc = "publish"]

\* alarmActive = localAlarm, and the delay to the next period
TaskAlarmPublish(r) ==
  [r EXCEPT !.alarmActive = r.localAlarm, !.pc = "receive"]

\* the button is not held: no press the task times reaches LONG_PRESS_MS
NotHeld(r, d, b) ==
  b = HIGH \/ ~r.btnWasLow \/ r.press + d < LONG_PRESS_MS

\* ------------------------------------------------------------- transitions

Init ==
  /\ now \in StartTimes
  /\ currentState = STATE_MONITORING
  /\ impactTime = Zero32
  /\ btnWasLow = FALSE
  /\ btnPressStart = Zero32
  /\ btnHeld = FALSE
  /\ motionHistory = AllFalse
  /\ lastDisplayTime = now
  /\ led = LOW
  /\ buzzer = 0
  /\ rendered = FALSE
  /\ classified = [currentState |-> STATE_MONITORING, impactTime |-> Zero32,
                   motionHistory |-> AllFalse]
  /\ trigger = FALSE
  /\ stores = {}
  /\ sinceImpact = 0
  /\ sincePress = -1
  /\ pressRun = -1
  /\ calm = TRUE
  /\ still = TRUE
  /\ earlier = -1
  /\ heldFor = -1
  /\ moved = FALSE
  /\ failed = FALSE
  /\ outage = TRUE
  /\ sinceRender = 0
  /\ iter = 0
  /\ v1 = V1Init
  /\ rtos = RtosInit

\* one call of loop(), d ms after the previous one, with n bytes available
\* from the sensor, reading r, and button level b
Iteration(d, n, r, b) ==
  LET nw == Add32(now, d)
      a == readAccelSqMagnitude(n, r)
  IN  \E c \in StateMachine(Globals, nw, a) :
           LET g1 == ButtonLogic(c.g, nw, b)
               out == HardwareOutput(g1, nw)
               g2 == UIUpdate(g1, nw)
           IN  /\ now' = nw
               /\ currentState' = g2.currentState
               /\ impactTime' = g2.impactTime
               /\ btnWasLow' = g2.btnWasLow
               /\ btnPressStart' = g2.btnPressStart
               /\ btnHeld' = g2.btnHeld
               /\ motionHistory' = g2.motionHistory
               /\ lastDisplayTime' = g2.lastDisplayTime
               /\ led' = out[1]
               /\ buzzer' = out[2]
               /\ rendered' = DisplayDue(g1, nw)
               /\ classified' = [currentState |-> c.g.currentState,
                                  impactTime |-> c.g.impactTime,
                                  motionHistory |-> c.g.motionHistory]
               /\ trigger' = (currentState = STATE_MONITORING /\ a > IMPACT_SQ)
               /\ stores' = c.stores
               /\ sinceImpact' =
                    IF currentState = STATE_JUDGING THEN sinceImpact + d
                    ELSE 0
               /\ sincePress' =
                    IF c.g.currentState = STATE_ALARM /\ b = LOW
                      THEN IF ~c.g.btnWasLow THEN 0
                           ELSE IF sincePress >= 0 THEN sincePress + d
                           ELSE -1
                      ELSE -1
               /\ calm' = (calm /\ a <= IMPACT_SQ)
               /\ still' =
                    IF currentState = STATE_JUDGING
                      THEN still /\ a <= STABILITY_SQ
                      ELSE TRUE
               /\ pressRun' =
                    IF c.g.currentState = STATE_ALARM /\ b = LOW
                      THEN IF pressRun >= 0 THEN pressRun + d ELSE 0
                      ELSE -1
               /\ earlier' =
                    IF c.g.currentState = STATE_ALARM
                      THEN IF b = LOW THEN earlier
                           ELSE Min((IF earlier >= 0 THEN earlier ELSE 0)
                                      + (IF pressRun >= 0 THEN pressRun ELSE 0),
                                    LONG_PRESS_MS)
                      ELSE -1
               /\ heldFor' =
                    IF b = LOW
                      THEN IF heldFor >= 0 THEN Min(heldFor + d, LONG_PRESS_MS)
                           ELSE 0
                      ELSE -1
               /\ moved' = (currentState = STATE_JUDGING /\ a > STABILITY_SQ)
               /\ failed' = (n < REQUESTED)
               /\ outage' =
                    IF currentState = STATE_JUDGING
                      THEN outage /\ n < REQUESTED
                      ELSE TRUE
               /\ sinceRender' =
                    Min((IF rendered THEN 0 ELSE sinceRender) + d, DISPLAY_INTERVAL)
               /\ iter' = iter + 1
               /\ v1' = v1
               /\ rtos' = rtos

\* the loop of the sketch
Loop(d, a, b) == iter < MaxIter /\ Iteration(d, REQUESTED, a, b)

Next == \E d \in Deltas, a \in Samples, b \in Buttons : Loop(d, a, b)

Spec == Init /\ [][Next]_vars

\* the loop followed for MaxHold iterations on the inputs HoldDeltas and
\* HoldSamples
LoopHold(d, a, b) == iter < MaxHold /\ Iteration(d, REQUESTED, a, b)

NextHold == \E d \in HoldDeltas, a \in HoldSamples, b \in Buttons : LoopHold(d, a, b)

SpecHold == Init /\ [][NextHold]_vars

\* the loop with sensor reads that may fail
LoopSensor(d, n, r, b) == iter < MaxSensor /\ Iteration(d, n, r, b)

NextSensor ==
  \E d \in SensorDeltas, n \in Available, r \in Readings, b \in Buttons :
    LoopSensor(d, n, r, b)

SpecSensor == Init /\ [][NextSensor]_vars

\* the loop called again and again: main() calls loop() forever
LoopLive(d, a, b) == iter < MaxLive /\ Iteration(d, REQUESTED, a, b)

NextLive == \E d \in LiveDeltas, a \in LiveSamples, b \in Buttons : LoopLive(d, a, b)

SpecLive == Init /\ [][NextLive]_vars /\ WF_vars(NextLive)

\* the loop of the baseline sketch
LoopV1(d, aMag, b) ==
  /\ v1.n < MaxV1
  /\ v1' = V1Iteration(v1, d, aMag, b)
  /\ UNCHANGED <<loopVars, rtos>>

NextV1 == \E d \in V1Deltas, aMag \in V1Samples, b \in Buttons : LoopV1(d, aMag, b)

SpecV1 == Init /\ [][NextV1]_vars

\* the tasks of the FreeRTOS sketch
StepIMU(aMag) ==
  /\ rtos' = TaskIMU(rtos, aMag)
  /\ UNCHANGED <<loopVars, v1>>

StepAlarmReceive(d, b) ==
  /\ rtos.pc = "receive"
  /\ rtos' = TaskAlarmReceive(rtos, d, b)
  /\ UNCHANGED <<loopVars, v1>>

StepAlarmPublish ==
  /\ rtos.pc = "publish"
  /\ rtos' = TaskAlarmPublish(rtos)
  /\ UNCHANGED <<loopVars, v1>>

NextRtos ==
  \/ \E aMag \in RtosSamples : StepIMU(aMag)
  \/ \E d \in RtosDeltas, b \in Buttons : StepAlarmReceive(d, b)
  \/ StepAlarmPublish

SpecRtos == Init /\ [][NextRtos]_vars

\* the tasks with TaskAlarm scheduled again and again and the button not
\* held
StepAlarmNotHeld(d, b) == NotHeld(rtos, d, b) /\ StepAlarmReceive(d, b)

TaskAlarmRuns ==
  \/ \E d \in RtosDeltas, b \in Buttons : StepAlarmNotHeld(d, b)
  \/ StepAlarmPublish

NextRtosLive ==
  \/ \E aMag \in RtosSamples : StepIMU(aMag)
  \/ TaskAlarmRuns

SpecRtosLive == Init /\ [][NextRtosLive]_vars /\ WF_vars(TaskAlarmRuns)

TypeOK ==
  /\ currentState \in SystemState
  /\ motionHistory \in [Slots -> BOOLEAN]
  /\ iter \in 0 .. MaxHold

\* ------------------------------------------------------------------ claims
\* the iteration from the current state to the next one ran d ms later with
\* sample a and button level b
Ran(d, a, b) == Loop(d, a, b)

\* C1 Monotonic safety: as long as every sample read since the initial
\* state was <= IMPACT_SQ (4.0), whatever the timestamps and the button
\* readings, the state after every iteration is Monitoring.
C1_MonotonicSafety == calm => currentState = STATE_MONITORING

C1_Witness == calm /\ iter >= 3 /\ btnHeld

\* C2 Single-trigger entry: an iteration that starts in Monitoring and reads
\* a sample > IMPACT_SQ ends in Judging, with impactTime equal to that
\* iteration's timestamp and all five motion slots false.
C2_SingleTriggerEntry ==
  trigger => /\ currentState = STATE_JUDGING
             /\ classified.currentState = STATE_JUDGING
             /\ impactTime = now
             /\ motionHistory = AllFalse

\* a judging episode has just begun, not the first one
C2_Witness ==
  /\ trigger
  /\ currentState = STATE_JUDGING
  /\ impactTime = now
  /\ iter >= 4

\* C3 Minority-fall-confirmed: an iteration that starts in Judging with
\* >= JUDGE_WINDOW_MS elapsed since the impact and counts fewer than
\* REQUIRED_ACTIVE_SECONDS marked slots leaves the switch in Alarm; one that
\* ends a window in which no sample exceeded STABILITY_SQ leaves the switch
\* in Alarm and ends in Alarm.
C3_MinorityFallConfirmed ==
  [][(currentState = STATE_JUDGING /\ sinceImpact' >= JUDGE_WINDOW_MS)
       => /\ ActiveCount(motionHistory') < REQUIRED_ACTIVE_SECONDS
               => classified'.currentState = STATE_ALARM
          /\ still' => /\ classified'.currentState = STATE_ALARM
                       /\ currentState' = STATE_ALARM]_vars

\* only bucket 1 marked, window closed exactly 5000 ms after the impact
C3_Witness ==
  /\ classified.currentState = STATE_ALARM
  /\ currentState = STATE_ALARM
  /\ sinceImpact = JUDGE_WINDOW_MS
  /\ motionHistory = [i \in Slots |-> i = 1]

\* C4 Majority-false-alarm: an iteration that starts in Judging with
\* >= JUDGE_WINDOW_MS elapsed and counts at least REQUIRED_ACTIVE_SECONDS
\* marked slots ends in Monitoring, and the episode never shows Alarm: the
\* switch leaves Monitoring behind, the LED stays off and the buzzer silent.
C4_MajorityFalseAlarm ==
  [][(/\ currentState = STATE_JUDGING
      /\ sinceImpact' >= JUDGE_WINDOW_MS
      /\ ActiveCount(motionHistory') >= REQUIRED_ACTIVE_SECONDS)
       => /\ classified'.currentState = STATE_MONITORING
          /\ currentState' = STATE_MONITORING
          /\ led' = LOW
          /\ buzzer' = 0]_vars

\* motion in exactly three distinct seconds, episode just closed
C4_Witness ==
  /\ classified.currentState = STATE_MONITORING
  /\ currentState = STATE_MONITORING
  /\ sinceImpact >= JUDGE_WINDOW_MS
  /\ ActiveCount(motionHistory) = REQUIRED_ACTIVE_SECONDS

C6_AlarmSticky ==
  [][currentState = STATE_ALARM
       => /\ classified'.currentState = STATE_ALARM
          /\ \/ currentState' = STATE_ALARM
             \/ /\ currentState' = STATE_MONITORING
                /\ btnWasLow
                /\ pressRun' > 0
                /\ Geq32(Sub32(now', btnPressStart), LONG_PRESS_MS)]_vars

\* Alarm kept through an iteration with the button pressed for 1999 ms
C6_Witness ==
  /\ currentState = STATE_ALARM
  /\ pressRun = LONG_PRESS_MS - 1
  /\ btnWasLow

C8_BucketBoundary == stores \subseteq Slots

\* C9 Clock wraparound: the elapsed times the code computes from the
\* wrapping counter decide as the true elapsed times do.  An iteration that
\* starts in Judging leaves Judging exactly when >= JUDGE_WINDOW_MS have
\* truly elapsed since the impact, and a store it makes is at the index the
\* true elapsed time gives; an iteration in Alarm that continues a timed
\* press cancels exactly when >= LONG_PRESS_MS have truly elapsed since the
\* press edge.
C9_ClockWraparound ==
  [][/\ currentState = STATE_JUDGING
          => /\ classified'.currentState # STATE_JUDGING <=> sinceImpact' >= JUDGE_WINDOW_MS
             /\ stores' \subseteq {ToInt(sinceImpact' \div SLOT_MS)}
     /\ (sincePress >= 0 /\ sincePress' > 0)
          => (currentState' = STATE_MONITORING
                <=> sincePress' >= LONG_PRESS_MS)]_vars

\* x < y as unsigned numbers
Before(x, y) == x[1] < y[1] \/ (x[1] = y[1] /\ x[2] < y[2])

\* the counter wrapped between the impact and an iteration that marked a slot
C9_Witness ==
  /\ currentState = STATE_JUDGING
  /\ Before(now, impactTime)
  /\ stores # {}
  /\ sinceImpact > 0

\* the counter wrapped between the press edge and the cancelling iteration
C9_WrapDuringHold ==
  /\ classified.currentState = STATE_ALARM
  /\ currentState = STATE_MONITORING
  /\ sincePress >= LONG_PRESS_MS
  /\ Before(now, btnPressStart)

\* C10 Outside Alarm the button never triggers a transition: when the switch
\* of an iteration leaves Monitoring or Judging, the iteration ends with the
\* state, the impactTime and the motion window the switch produced, whatever
\* the button reading.
C10_ButtonInertOutsideAlarm ==
  classified.currentState # STATE_ALARM
    => /\ currentState = classified.currentState
       /\ impactTime = classified.impactTime
       /\ motionHistory = classified.motionHistory

\* the button read pressed in an iteration that stayed in Judging
C10_Witness ==
  /\ classified.currentState = STATE_JUDGING
  /\ iter > 0
  /\ currentState = STATE_JUDGING
  /\ btnHeld
  /\ sinceImpact >= LONG_PRESS_MS

\* C11 Release resets the hold: an iteration that reads the button released
\* in Alarm ends in Alarm with no press being timed; the first pressed
\* reading after such a release starts the timing at that iteration's
\* timestamp; and a run of pressed readings after such a release that spans
\* less than LONG_PRESS_MS leaves the state Alarm, however long the runs
\* before the release were.
C11_ReleaseResetsHold ==
  /\ (classified.currentState = STATE_ALARM /\ pressRun = -1)
       => (currentState = STATE_ALARM /\ ~btnWasLow)
  /\ (classified.currentState = STATE_ALARM /\ earlier >= 0 /\ pressRun = 0)
       => (currentState = STATE_ALARM /\ btnWasLow /\ btnPressStart = now)
  /\ (/\ classified.currentState = STATE_ALARM
      /\ earlier >= 0
      /\ pressRun >= 0
      /\ pressRun < LONG_PRESS_MS)
       => currentState = STATE_ALARM

\* two runs, each shorter than LONG_PRESS_MS, a release between them, their
\* sum LONG_PRESS_MS, and the alarm still on
C11_Witness ==
  /\ currentState = STATE_ALARM
  /\ earlier > 0
  /\ earlier < LONG_PRESS_MS
  /\ pressRun > 0
  /\ pressRun < LONG_PRESS_MS
  /\ earlier + pressRun >= LONG_PRESS_MS

\* C12 State-agnostic debouncer: the hold is measured from the press edge
\* whatever the state, so that once the state is Alarm a press read for
\* LONG_PRESS_MS or more from its edge, in whatever state the edge was read,
\* is a long press and the iteration ends in Monitoring; and the iteration
\* of the press edge records its timestamp in every state.
C12_StateAgnosticHold ==
  /\ (classified.currentState = STATE_ALARM /\ heldFor >= LONG_PRESS_MS)
       => currentState = STATE_MONITORING
  /\ heldFor = 0 => btnPressStart = now

\* C12 as amended: the hold is measured in Alarm only.  An iteration that
\* ends outside Alarm leaves no press being timed; the iteration that reads
\* the button pressed in Alarm with no press being timed records its own
\* timestamp, however long the button has been pressed by then; while the
\* button stays pressed the held duration is now minus that timestamp, the
\* state stays Alarm while it is below LONG_PRESS_MS and becomes Monitoring
\* when it reaches LONG_PRESS_MS.
C12_HoldMeasuredInAlarm ==
  /\ currentState # STATE_ALARM => ~btnWasLow
  /\ sincePress = 0
       => (currentState = STATE_ALARM /\ btnWasLow /\ btnPressStart = now)
  /\ (sincePress > 0 /\ sincePress < LONG_PRESS_MS)
       => /\ currentState = STATE_ALARM
          /\ Sub32(now, btnPressStart) = U32(sincePress)
  /\ sincePress >= LONG_PRESS_MS => currentState = STATE_MONITORING

\* the button pressed for LONG_PRESS_MS or more, since before Alarm was
\* entered, and the alarm still on
C12_Witness ==
  /\ currentState = STATE_ALARM
  /\ heldFor >= LONG_PRESS_MS
  /\ sincePress > 0
  /\ sincePress < LONG_PRESS_MS

\* C13 The motion window is written only in a judging episode: an iteration
\* changes a slot of motionHistory only if it starts in Monitoring and reads
\* an impact (and then all slots are false) or starts in Judging; an
\* iteration that starts in Monitoring without an impact, or in Alarm,
\* changes no slot.
C13_WindowWrittenInJudging ==
  [][/\ motionHistory' # motionHistory
          => \/ trigger' /\ motionHistory' = AllFalse
             \/ currentState = STATE_JUDGING
     /\ (currentState = STATE_ALARM \/ (currentState = STATE_MONITORING /\ ~trigger'))
          => motionHistory' = motionHistory]_vars

\* an iteration that started in Alarm and cancelled it, the two marked slots
\* of the episode kept
C13_Witness ==
  /\ classified.currentState = STATE_ALARM
  /\ currentState = STATE_MONITORING
  /\ sinceImpact = 0
  /\ ActiveCount(motionHistory) = 2

\* C14 Actuator follows the state of the same iteration: after every
\* iteration the LED is on with the 2000 Hz tone iff the state is Alarm and
\* (now / 300) mod 2 = 0, the LED is off with the 1000 Hz tone iff the state
\* is Alarm and (now / 300) mod 2 = 1, and the LED is off with no tone iff
\* the state is not Alarm.
C14_ActuatorFollowsState ==
  /\ (led = HIGH /\ buzzer = 2000)
       <=> (currentState = STATE_ALARM /\ Div32(now, SIREN_MS) % 2 = 0)
  /\ (led = LOW /\ buzzer = 1000)
       <=> (currentState = STATE_ALARM /\ Div32(now, SIREN_MS) % 2 = 1)
  /\ (led = LOW /\ buzzer = 0) <=> currentState # STATE_ALARM

\* the siren in its low phase in the very iteration that confirms the fall
C14_Witness ==
  /\ currentState = STATE_ALARM
  /\ sinceImpact >= JUDGE_WINDOW_MS
  /\ led = LOW
  /\ buzzer = 1000

\* the siren silenced in the very iteration of the cancel
C14_SilencedAtCancel ==
  /\ classified.currentState = STATE_ALARM
  /\ currentState = STATE_MONITORING
  /\ led = LOW
  /\ buzzer = 0

\* C15 Display throttle: an iteration that refreshes the display runs at
\* least DISPLAY_INTERVAL ms after the previous refresh and sets
\* lastDisplayTime to its timestamp; an iteration that does not refresh it
\* still reads the sample and the button, classifies and drives the
\* actuator.
C15_DisplayThrottle ==
  /\ rendered => (sinceRender >= DISPLAY_INTERVAL /\ lastDisplayTime = now)
  /\ (~rendered /\ iter > 0)
       => /\ trigger => classified.currentState = STATE_JUDGING
          /\ btnHeld <=> heldFor >= 0
          /\ buzzer # 0 <=> currentState = STATE_ALARM

\* an iteration 1 ms after a refresh: no refresh, the impact classified
C15_Witness ==
  /\ ~rendered
  /\ sinceRender = 1
  /\ trigger
  /\ currentState = STATE_JUDGING
  /\ iter >= 2

\* C16 Sensor failure is a zero-motion sample: an iteration whose sensor
\* read fails stays in Monitoring if it starts there, and marks no slot of
\* the motion window in any state; a judging window in which every read
\* failed ends in Alarm; and a failed read leaves the state machine in one
\* of its three states.
C16_SensorFailure ==
  [][/\ failed'
          => /\ currentState = STATE_MONITORING => currentState' = STATE_MONITORING
             /\ motionHistory' = motionHistory
             /\ stores' = {}
             /\ currentState' \in SystemState
     /\ (currentState = STATE_JUDGING /\ outage' /\ sinceImpact' >= JUDGE_WINDOW_MS)
          => /\ classified'.currentState = STATE_ALARM
             /\ currentState' = STATE_ALARM]_vars

\* an impact, three failed reads in the window, the last one closing it:
\* Alarm
C16_Witness ==
  /\ failed
  /\ outage
  /\ currentState = STATE_ALARM
  /\ sinceImpact >= JUDGE_WINDOW_MS
  /\ iter = 4

\* C17 README threshold for the final state machine: an iteration that
\* starts in Monitoring and reads a sample whose magnitude exceeds 1.8 g
\* (squared magnitude > README_IMPACT_SQ) ends in Judging.
C17_ReadmeThreshold ==
  [][\A d \in Deltas, a \in Samples, b \in Buttons :
       (/\ currentState = STATE_MONITORING
        /\ a > README_IMPACT_SQ
        /\ Ran(d, a, b))
         => currentState' = STATE_JUDGING]_vars

\* C18 Baseline behaviour: in the baseline loop an iteration that starts
\* with the alarm inactive and reads a magnitude above 1.8 g ends with the
\* alarm active, the LED on and the 2 kHz tone; an iteration in which the
\* alarm is active ends with it active, whatever the sample, unless the
\* button has been read pressed in consecutive iterations with the alarm
\* active spanning LONG_PRESS_MS or more, and then it ends with it inactive.
C18_BaselineV1 ==
  /\ v1.impact => (v1.checked /\ v1.alarmActive)
  /\ v1.alarmActive <=> (v1.led = HIGH /\ v1.buzzer = 2000)
  /\ ~v1.alarmActive <=> (v1.led = LOW /\ v1.buzzer = 0)
  /\ (v1.checked /\ v1.pressRun < LONG_PRESS_MS) => v1.alarmActive
  /\ (v1.checked /\ v1.pressRun >= LONG_PRESS_MS) => ~v1.alarmActive
  /\ ~v1.checked => ~v1.alarmActive

\* the alarm still on after a press of 1999 ms, the counter having wrapped
C18_Witness ==
  /\ v1.alarmActive
  /\ v1.pressRun = LONG_PRESS_MS - 1
  /\ Before(v1.now, v1.btnPressStart)

\* the iterations a judging window can take when every iteration comes at
\* least the smallest of LiveDeltas after the previous one
WindowIters ==
  (JUDGE_WINDOW_MS \div (CHOOSE x \in LiveDeltas : \A y \in LiveDeltas : x <= y)) + 1

\* C19 Judging window duration and termination: an iteration that starts in
\* Judging ends in Judging iff the time elapsed since the impact is below
\* JUDGE_WINDOW_MS, so the state leaves Judging, to Monitoring or Alarm, in
\* the first iteration with elapsed time >= JUDGE_WINDOW_MS; and with the
\* loop called again and again and the clock advancing, every judging
\* episode with the iterations of a window still to run comes to an end.
C19_JudgingWindow ==
  /\ [][currentState = STATE_JUDGING
          => (currentState' = STATE_JUDGING <=> sinceImpact' < JUDGE_WINDOW_MS)]_vars
  /\ []((currentState = STATE_JUDGING /\ iter + WindowIters <= MaxLive)
          => <>(currentState # STATE_JUDGING))

\* a window that stayed open at 1999 ms and closed at exactly
\* JUDGE_WINDOW_MS
C19_Witness ==
  /\ currentState # STATE_JUDGING
  /\ classified.currentState # STATE_JUDGING
  /\ sinceImpact = JUDGE_WINDOW_MS
  /\ iter >= 3

\* C20 Bucket marking is exact and monotone: an iteration that starts in
\* Judging and reads a sample > STABILITY_SQ with elapsed time e below
\* JUDGE_WINDOW_MS sets slot e / 1000 and changes no other slot; one that
\* reads a sample <= STABILITY_SQ changes no slot; no iteration of the
\* episode clears a slot, and the number of marked slots never decreases.
C20_BucketMarking ==
  [][currentState = STATE_JUDGING
       => /\ (moved' /\ sinceImpact' < JUDGE_WINDOW_MS)
               => motionHistory' =
                    [motionHistory EXCEPT ![sinceImpact' \div SLOT_MS] = TRUE]
          /\ ~moved' => motionHistory' = motionHistory
          /\ \A i \in Slots : motionHistory[i] => motionHistory'[i]
          /\ ActiveCount(motionHistory') >= ActiveCount(motionHistory)]_vars

\* slot 0 marked 1 ms after the impact, slot 2 marked 1999 ms later, the
\* other slots untouched
C20_Witness ==
  /\ currentState = STATE_JUDGING
  /\ moved
  /\ sinceImpact = 2000
  /\ motionHistory = [i \in Slots |-> i \in {0, 2}]

\* the state changes an iteration may make
Transitions ==
  {<<STATE_MONITORING, STATE_JUDGING>>, <<STATE_JUDGING, STATE_MONITORING>>,
   <<STATE_JUDGING, STATE_ALARM>>, <<STATE_ALARM, STATE_MONITORING>>}

C22_ImpactIsNotMotion ==
  [][/\ (currentState = STATE_MONITORING /\ currentState' = STATE_JUDGING)
          => ~motionHistory'[0]
     /\ (currentState = STATE_JUDGING /\ ~motionHistory[0] /\ motionHistory'[0])
          => (moved' /\ sinceImpact' > 0 /\ sinceImpact' < SLOT_MS)
     /\ (/\ currentState = STATE_JUDGING
         /\ sinceImpact' >= JUDGE_WINDOW_MS
         /\ ActiveCount(motionHistory') = 2)
          => /\ classified'.currentState = STATE_ALARM
             /\ ~moved' => currentState' = STATE_ALARM]_vars

\* an impact, motion in seconds 1 and 4 only, a still sample closing the
\* window: Alarm, slot 0 false
C22_Witness ==
  /\ currentState = STATE_ALARM
  /\ sinceImpact >= JUDGE_WINDOW_MS
  /\ ~moved
  /\ motionHistory = [i \in Slots |-> i \in {1, 4}]

C24_ImpactNotLost == rtos.observed ~> rtos.alarmActive

\* the alarm raised after a pass of TaskIMU whose event was dropped
C24_Witness == rtos.dropped /\ rtos.alarmActive

\* C25 No spurious re-alarm: alarmActive is written by TaskAlarm only, and
\* no pass of TaskAlarm sets localAlarm on an event that was sent before
\* the last cancel.
C25_NoSpuriousRealarm ==
  [][/\ rtos'.alarmActive # rtos.alarmActive
          => (rtos.pc = "publish" /\ rtos'.pc = "receive")
     /\ ~rtos'.stale]_vars

====
